---- MODULE Spec2Model ----
(***************************************************************************)
(* BillUploader: a scheduled-automation service.  The model covers         *)
(*   - upload_bills_job         (services/Schedulers.py, ReceiptService.py) *)
(*   - send_weekly_report_job   (services/Schedulers.py, ReceiptService.py) *)
(*   - the scheduler wrapper    (services/Schedulers.py)                    *)
(*   - the application lifespan and the manual triggers (main.py)           *)
(* Four specifications share the variables: SpecUpload, SpecReport,         *)
(* SpecSched (the lifespan) and SpecApi (the wrapper's functions called in  *)
(* any order).                                                              *)
(***************************************************************************)
EXTENDS Integers, Sequences, FiniteSets, TLC

VARIABLES
    disk,        \* names of the entries of BILLS_DIRECTORY
    upl,         \* per caller: the running invocation of upload_bills_job
    runs,        \* number of invocations of upload_bills_job started so far
    rep,         \* per caller: the running invocation of send_weekly_report_job
    reportLog,   \* the windows computed by the finished report invocations
    schedState,  \* the timer engine: "Uninitialized", "Running" or "Stopped"
    started,     \* number of scheduler.start() calls in this process
    store,       \* the persistent job store: job id -> number of entries
    storeUp,     \* whether the persistent store is reachable
    life,        \* the lifespan of the application (main.py)
    boots,       \* number of process starts so far
    api          \* the last call of the scheduler wrapper and its result

vars == <<disk, upl, runs, rep, reportLog, schedState, started, store,
          storeUp, life, boots, api>>

uploadVars == <<disk, upl, runs>>
reportVars == <<rep, reportLog>>
schedVars == <<schedState, started, store, storeUp, life, boots, api>>

(***************************************************************************)
(* Bounds of the model.                                                     *)
(***************************************************************************)
MaxRuns == 2
MaxReports == 2
MaxBoots == 3
MaxCalls == 4
MaxDay == 6

(***************************************************************************)
(* File names and str.lower().endswith(('.jpg', '.jpeg', '.png')).          *)
(* A name is a sequence of one-character strings.                           *)
(***************************************************************************)
UpperAlphabet == <<"A","B","C","D","E","F","G","H","I","J","K","L","M",
                   "N","O","P","Q","R","S","T","U","V","W","X","Y","Z">>

LowerAlphabet == <<"a","b","c","d","e","f","g","h","i","j","k","l","m",
                   "n","o","p","q","r","s","t","u","v","w","x","y","z">>

LowerChar(c) ==
    IF \E i \in 1..Len(UpperAlphabet) : UpperAlphabet[i] = c
    THEN LowerAlphabet[CHOOSE i \in 1..Len(UpperAlphabet) : UpperAlphabet[i] = c]
    ELSE c

Lower(s) == [i \in 1..Len(s) |-> LowerChar(s[i])]

EndsWith(s, suffix) ==
    /\ Len(s) >= Len(suffix)
    /\ SubSeq(s, Len(s) - Len(suffix) + 1, Len(s)) = suffix

IMAGE_EXTENSIONS ==
    { <<".","j","p","g">>, <<".","j","p","e","g">>, <<".","p","n","g">> }

\* The filter without lower(): the suffix is compared as written.
IsBillCaseSensitive(filename) ==
    \E e \in IMAGE_EXTENSIONS : EndsWith(filename, e)

IsBill(filename) ==
    \E e \in IMAGE_EXTENSIONS : EndsWith(Lower(filename), e)

FileNames ==
    { <<"a",".","j","p","g">>,
      <<"b",".","J","P","G">>,
      <<"n",".","t","x","t">> }

\* Directory entries for the check of the filter: every extension of the
\* filter in lower, upper and mixed case, other extensions, and names that
\* hold an image extension elsewhere than at the end.
SampleNames ==
    { <<"a",".","j","p","g">>,
      <<"b",".","J","P","G">>,
      <<"c",".","j","p","e","g">>,
      <<"d",".","p","n","g">>,
      <<"e",".","g","i","f">>,
      <<"n",".","t","x","t">>,
      <<"f",".","J","p","E","g">>,
      <<"g",".","P","N","G">>,
      <<".","p","n","g">>,
      <<"j","p","g">>,
      <<"h",".","j","p","g","x">>,
      <<"i",".","p","n","g",".","t","x","t">> }

\* The largest number of entries of a sampled directory.
MaxEntries == 2

(***************************************************************************)
(* Permutations of a finite set, as sequences: os.listdir returns the       *)
(* entries in arbitrary order.                                              *)
(***************************************************************************)
ListingsWithRepeats(S) == [1..Cardinality(S) -> S]

Listings(S) ==
    { s \in [1..Cardinality(S) -> S] : \A i, j \in 1..Cardinality(S) :
                                          s[i] = s[j] => i = j }

Range(s) == { s[i] : i \in 1..Len(s) }

(***************************************************************************)
(* Callers of the jobs.  "manual" is the POST endpoint of main.py,          *)
(* "sched" the scheduler's wrapper run_*_job; both run the functions of     *)
(* services/Schedulers.py.  "direct" is a plain call of the function of     *)
(* the same name in services/ReceiptService.py.                             *)
(***************************************************************************)
Callers == {"manual", "sched", "direct"}

Impl(p) == IF p = "direct" THEN "ReceiptService" ELSE "Schedulers"

(***************************************************************************)
(* services/ReceiptService.py imports ReceiptApiClient but its jobs         *)
(* evaluate the name ReceiptApiService, which the module never binds: the   *)
(* expression raises NameError.  services/Schedulers.py imports the name    *)
(* (the client class of services/ReceiptApiClient.py).                      *)
(***************************************************************************)
ClientNameBound(impl) == impl = "Schedulers"

(***************************************************************************)
(* upload_bills_job.  One record per caller holds the locals of the         *)
(* running invocation and what the invocation has done so far.              *)
(***************************************************************************)
IdleUpload ==
    [ pc           |-> "idle",
      listed       |-> {},      \* what os.listdir returned
      listing      |-> <<>>,    \* entries the for loop has not visited yet
      file_paths   |-> <<>>,
      bill_files   |-> <<>>,    \* the handles open() returned, by name
      open         |-> {},      \* the handles of bill_files not yet closed
      todo         |-> <<>>,    \* file_paths the removal loop has not visited
      removed      |-> {},      \* files this invocation removed from disk
      removeErrors |-> {},      \* files whose os.remove raised
      clients      |-> 0,       \* API clients created
      calls        |-> 0,       \* upload_receipts calls issued
      uploadResult |-> "none",  \* "ok" / "failed" once the call came back
      outcome      |-> "none",  \* "returned" / "raised" once the job ended
      response     |-> "none",  \* what the caller made of the outcome
      leftover     |-> {} ]     \* files the caller's previous run failed to upload

\* The caller invokes upload_bills_job().
StartUpload(p) ==
    /\ upl[p].pc \in {"idle", "done"}
    /\ runs < MaxRuns
    /\ upl' = [upl EXCEPT ![p] = [IdleUpload EXCEPT !.pc = "listdir"]]
    /\ runs' = runs + 1
    /\ UNCHANGED <<disk, reportVars, schedVars>>

\* os.listdir(BILLS_DIRECTORY): a snapshot of the directory, in any order.
ListDir(p) ==
    /\ upl[p].pc = "listdir"
    /\ \E l \in Listings(disk) :
          upl' = [upl EXCEPT ![p].listed = disk, ![p].listing = l,
                             ![p].pc = "scan"]
    /\ UNCHANGED <<disk, runs, reportVars, schedVars>>

\* The filter rejects the entry: the loop goes on.
ScanSkip(p) ==
    /\ upl[p].pc = "scan"
    /\ upl[p].listing # <<>>
    /\ ~IsBill(Head(upl[p].listing))
    /\ upl' = [upl EXCEPT ![p].listing = Tail(@)]
    /\ UNCHANGED <<disk, runs, reportVars, schedVars>>

\* The filter accepts the entry and open(file_path, 'rb') succeeds.
ScanOpen(p) ==
    /\ upl[p].pc = "scan"
    /\ upl[p].listing # <<>>
    /\ LET f == Head(upl[p].listing) IN
         /\ IsBill(f)
         /\ f \in disk
         /\ upl' = [upl EXCEPT ![p].listing = Tail(@),
                               ![p].file_paths = Append(@, f),
                               ![p].bill_files = Append(@, f),
                               ![p].open = @ \cup {f}]
    /\ UNCHANGED <<disk, runs, reportVars, schedVars>>

\* The filter accepts the entry and open() raises (the file is gone since the
\* listing, or it cannot be read).  The loop is outside every try block: the
\* exception leaves upload_bills_job at once.
ScanOpenFails(p) ==
    /\ upl[p].pc = "scan"
    /\ upl[p].listing # <<>>
    /\ LET f == Head(upl[p].listing) IN
         /\ IsBill(f)
         /\ upl' = [upl EXCEPT ![p].listing = Tail(@),
                               ![p].file_paths = Append(@, f),
                               ![p].outcome = "raised",
                               ![p].pc = "ended"]
    /\ UNCHANGED <<disk, runs, reportVars, schedVars>>

\* NoBills without the emptiness test of "if not bill_files: return": the
\* invocation goes on into the try block.
NoBillsNoReturn(p) ==
    /\ upl[p].pc = "scan"
    /\ upl[p].listing = <<>>
    /\ upl[p].bill_files = <<>>
    /\ upl' = [upl EXCEPT ![p].pc = "client"]
    /\ UNCHANGED <<disk, runs, reportVars, schedVars>>

\* if not bill_files: log and return.
NoBills(p) ==
    /\ upl[p].pc = "scan"
    /\ upl[p].listing = <<>>
    /\ upl[p].bill_files = <<>>
    /\ upl' = [upl EXCEPT ![p].outcome = "returned", ![p].pc = "ended"]
    /\ UNCHANGED <<disk, runs, reportVars, schedVars>>

\* bill_files is not empty: the try block is entered.
EnterTry(p) ==
    /\ upl[p].pc = "scan"
    /\ upl[p].listing = <<>>
    /\ upl[p].bill_files # <<>>
    /\ upl' = [upl EXCEPT ![p].pc = "client"]
    /\ UNCHANGED <<disk, runs, reportVars, schedVars>>

\* async with ReceiptApiService(...) as service.  Where the name is not
\* bound the NameError is caught by the outer except, which logs it.
CreateClient(p) ==
    /\ upl[p].pc = "client"
    /\ IF ClientNameBound(Impl(p))
       THEN upl' = [upl EXCEPT ![p].clients = @ + 1, ![p].pc = "upload"]
       ELSE upl' = [upl EXCEPT ![p].pc = "finally"]
    /\ UNCHANGED <<disk, runs, reportVars, schedVars>>

\* await service.upload_receipts(bill_files) returns.
UploadSucceeds(p) ==
    /\ upl[p].pc = "upload"
    /\ upl' = [upl EXCEPT ![p].calls = @ + 1,
                          ![p].uploadResult = "ok",
                          ![p].todo = upl[p].file_paths,
                          ![p].pc = "remove"]
    /\ UNCHANGED <<disk, runs, reportVars, schedVars>>

\* InnerExcept with the removal loop run after a failed call as well.
InnerExceptRemoves(p) ==
    [upl EXCEPT ![p].calls = @ + 1,
                ![p].uploadResult = "failed",
                ![p].todo = upl[p].file_paths,
                ![p].pc = "remove"]

\* The same call, with the remote call failing: the except clause that the
\* call raises into.  It logs and re-raises; the client is closed.
InnerExcept(p) ==
    [upl EXCEPT ![p].calls = @ + 1,
                ![p].uploadResult = "failed",
                ![p].pc = "outer_except"]

UploadFails(p) ==
    /\ upl[p].pc = "upload"
    /\ upl' = InnerExcept(p)
    /\ UNCHANGED <<disk, runs, reportVars, schedVars>>

\* except Exception as e: logger.error(...) of the outer try: the exception
\* is logged and not raised again.
OuterExcept(p) ==
    /\ upl[p].pc = "outer_except"
    /\ upl' = [upl EXCEPT ![p].pc = "finally"]
    /\ UNCHANGED <<disk, runs, reportVars, schedVars>>

\* os.remove(file_path) succeeds.
RemoveFile(p) ==
    /\ upl[p].pc = "remove"
    /\ upl[p].todo # <<>>
    /\ LET f == Head(upl[p].todo) IN
         /\ f \in disk
         /\ disk' = disk \ {f}
         /\ upl' = [upl EXCEPT ![p].todo = Tail(@),
                               ![p].removed = @ \cup {f}]
    /\ UNCHANGED <<runs, reportVars, schedVars>>

\* An os.remove whose exception is not caught inside the loop: it reaches
\* the except clauses of the upload and the remaining files are skipped.
RemoveFailsAborts(p) ==
    /\ upl[p].pc = "remove"
    /\ upl[p].todo # <<>>
    /\ upl' = [upl EXCEPT ![p].removeErrors = @ \cup {Head(upl[p].todo)},
                          ![p].pc = "outer_except"]
    /\ UNCHANGED <<disk, runs, reportVars, schedVars>>

\* os.remove(file_path) raises: logged, the loop goes on.
RemoveFails(p) ==
    /\ upl[p].pc = "remove"
    /\ upl[p].todo # <<>>
    /\ upl' = [upl EXCEPT ![p].todo = Tail(@),
                          ![p].removeErrors = @ \cup {Head(upl[p].todo)}]
    /\ UNCHANGED <<disk, runs, reportVars, schedVars>>

\* The removal loop is over: the async with block is left.
LeaveClient(p) ==
    /\ upl[p].pc = "remove"
    /\ upl[p].todo = <<>>
    /\ upl' = [upl EXCEPT ![p].pc = "finally"]
    /\ UNCHANGED <<disk, runs, reportVars, schedVars>>

\* finally: for file in bill_files: file.close(); the job returns.
CloseAll(p) ==
    [upl EXCEPT ![p].open = @ \ Range(upl[p].bill_files),
                ![p].outcome = "returned",
                ![p].pc = "ended"]

Finally(p) ==
    /\ upl[p].pc = "finally"
    /\ upl' = CloseAll(p)
    /\ UNCHANGED <<disk, runs, reportVars, schedVars>>

\* What the caller makes of the job's outcome.
\*   manual: trigger_upload_bills returns the message (200); an exception
\*           leaves the handler and the framework answers 500.
\*   sched:  run_upload_bills_job -> run_async_job -> asyncio.run; an
\*           exception is logged by the scheduler's executor.
\*   direct: the caller sees the outcome itself.
UploadResponse(p, outcome) ==
    CASE p = "manual" -> IF outcome = "returned"
                         THEN "200 Bill upload job completed" ELSE "500"
      [] p = "sched"  -> IF outcome = "returned" THEN "ran" ELSE "logged"
      [] OTHER        -> outcome

RespondUpload(p) ==
    /\ upl[p].pc = "ended"
    /\ upl' = [upl EXCEPT ![p].response = UploadResponse(p, upl[p].outcome),
                          ![p].pc = "done"]
    /\ UNCHANGED <<disk, runs, reportVars, schedVars>>

\* The files an ended invocation opened and failed to upload.
Leftover(p) ==
    IF upl[p].uploadResult = "failed" THEN Range(upl[p].file_paths) ELSE {}

\* A trigger that fires a single time (a date trigger in place of the cron
\* trigger): after the first run the job is not started again.
TimerFiresOnce ==
    /\ upl["sched"].pc = "idle"
    /\ upl' = [upl EXCEPT !["sched"] = [IdleUpload EXCEPT !.pc = "listdir"]]
    /\ UNCHANGED <<disk, runs, reportVars, schedVars>>

\* The cron trigger of "upload_bills_job" fires again (every two hours):
\* run_upload_bills_job starts the next invocation.  Nothing but the
\* directory is carried over; leftover only records what the previous run
\* failed to upload.
TimerFiresUpload ==
    /\ upl["sched"].pc \in {"idle", "done"}
    /\ upl' = [upl EXCEPT !["sched"] = [IdleUpload EXCEPT
                                          !.pc = "listdir",
                                          !.leftover = Leftover("sched")]]
    /\ UNCHANGED <<disk, runs, reportVars, schedVars>>

(***************************************************************************)
(* send_weekly_report_job.  A datetime is a record: day counts the days     *)
(* from a Monday (day 0), so that datetime.weekday() is day % 7.            *)
(***************************************************************************)
ClockTimes ==
    { <<13, 0, 0, 0>>, <<13, 0, 0, 1>>, <<23, 59, 59, 999999>> }

DateTime(d, t) ==
    [day |-> d, hour |-> t[1], minute |-> t[2], second |-> t[3],
     microsecond |-> t[4]]

Nows == { DateTime(d, t) : d \in 0..MaxDay, t \in ClockTimes }

Weekday(dt) == dt.day % 7

\* datetime - timedelta(days=n)
MinusDays(dt, n) == [dt EXCEPT !.day = @ - n]

\* datetime.replace(hour=h, minute=m, second=s, microsecond=us)
Replace(dt, h, m, s, us) ==
    [dt EXCEPT !.hour = h, !.minute = m, !.second = s, !.microsecond = us]

AsTuple(dt) == <<dt.day, dt.hour, dt.minute, dt.second, dt.microsecond>>

\* a <= b on datetimes
NotAfter(a, b) ==
    LET x == AsTuple(a)
        y == AsTuple(b)
    IN  \/ x = y
        \/ \E i \in 1..5 : x[i] < y[i] /\ \A k \in 1..(i - 1) : x[k] = y[k]

\* The window as services/ReceiptService.py computes it.
WindowPrecise(today) ==
    LET last_day == MinusDays(today, Weekday(today) + 1)
        first_day == MinusDays(last_day, 6)
    IN  [first_day |-> Replace(first_day, 0, 1, 0, 0),
         last_day  |-> Replace(last_day, 23, 59, 59, 0)]

\* The window as services/Schedulers.py computes it: no replace().
WindowPlain(today) ==
    LET last_day == MinusDays(today, Weekday(today) + 1)
        first_day == MinusDays(last_day, 6)
    IN  [first_day |-> first_day, last_day |-> last_day]

Window(impl, today) ==
    IF impl = "ReceiptService" THEN WindowPrecise(today) ELSE WindowPlain(today)

IdleReport ==
    [ pc         |-> "idle",
      today      |-> DateTime(0, <<0, 0, 0, 0>>),
      first_day  |-> DateTime(0, <<0, 0, 0, 0>>),
      last_day   |-> DateTime(0, <<0, 0, 0, 0>>),
      clients    |-> 0,        \* API clients created
      calls      |-> 0,        \* send_report_by_email calls issued
      callResult |-> "none",   \* "ok" / "failed" once the call came back
      outcome    |-> "none",   \* "returned" / "raised" once the job ended
      response   |-> "none" ]

\* The caller invokes send_weekly_report_job(): today = datetime.now() and
\* the window are computed.  The clock does not run backwards from one
\* invocation to the next.
StartReport(p) ==
    /\ rep[p].pc \in {"idle", "done"}
    /\ Len(reportLog) < MaxReports
    /\ \E now \in Nows :
         LET w == Window(Impl(p), now) IN
           /\ reportLog # <<>> =>
                 NotAfter(reportLog[Len(reportLog)].today, now)
           /\ rep' = [rep EXCEPT ![p] = [IdleReport EXCEPT
                                           !.pc = "client",
                                           !.today = now,
                                           !.first_day = w.first_day,
                                           !.last_day = w.last_day]]
           /\ reportLog' = Append(reportLog,
                                  [impl |-> Impl(p), today |-> now,
                                   first_day |-> w.first_day,
                                   last_day |-> w.last_day])
    /\ UNCHANGED <<uploadVars, schedVars>>

\* async with ReceiptApiService(...) as service.  Where the name is not
\* bound the NameError is caught by the except clause, which logs it.
ReportCreateClient(p) ==
    /\ rep[p].pc = "client"
    /\ IF ClientNameBound(Impl(p))
       THEN rep' = [rep EXCEPT ![p].clients = @ + 1, ![p].pc = "call"]
       ELSE rep' = [rep EXCEPT ![p].outcome = "returned", ![p].pc = "ended"]
    /\ UNCHANGED <<reportLog, uploadVars, schedVars>>

\* await service.send_report_by_email(first_day, last_day) returns.
ReportSucceeds(p) ==
    /\ rep[p].pc = "call"
    /\ rep' = [rep EXCEPT ![p].calls = @ + 1,
                          ![p].callResult = "ok",
                          ![p].outcome = "returned",
                          ![p].pc = "ended"]
    /\ UNCHANGED <<reportLog, uploadVars, schedVars>>

\* ReportExcept with the exception raised again after logging.
ReportExceptRaises(p) ==
    [rep EXCEPT ![p].calls = @ + 1,
                ![p].callResult = "failed",
                ![p].outcome = "raised",
                ![p].pc = "ended"]

\* The same call, with the remote call failing: except Exception logs the
\* error; nothing is raised again.
ReportExcept(p) ==
    [rep EXCEPT ![p].calls = @ + 1,
                ![p].callResult = "failed",
                ![p].outcome = "returned",
                ![p].pc = "ended"]

ReportFails(p) ==
    /\ rep[p].pc = "call"
    /\ rep' = ReportExcept(p)
    /\ UNCHANGED <<reportLog, uploadVars, schedVars>>

\* What the caller makes of the job's outcome (see UploadResponse).
ReportResponse(p, outcome) ==
    CASE p = "manual" -> IF outcome = "returned"
                         THEN "200 Weekly report job completed" ELSE "500"
      [] p = "sched"  -> IF outcome = "returned" THEN "ran" ELSE "logged"
      [] OTHER        -> outcome

RespondReport(p) ==
    /\ rep[p].pc = "ended"
    /\ rep' = [rep EXCEPT ![p].response = ReportResponse(p, rep[p].outcome),
                          ![p].pc = "done"]
    /\ UNCHANGED <<reportLog, uploadVars, schedVars>>

(***************************************************************************)
(* The scheduler wrapper (services/Schedulers.py).  The job store is the    *)
(* library's persistent store keyed by job id; the model keeps the number   *)
(* of entries per id, so that a duplicate entry is a state of the model.    *)
(***************************************************************************)
JobIds == {"upload_bills_job", "send_weekly_report_job"}

\* scheduler.get_jobs(): the ids that have an entry.
GetJobs(st) == { j \in JobIds : st[j] > 0 }

\* AddJob as a store that appends an entry whether or not the id exists.
AddJobAppends(st, id) == [st EXCEPT ![id] = @ + 1]

\* scheduler.add_job(..., id=id, replace_existing=True): the entry of the
\* id is written, replacing the entry the id had.
AddJob(st, id) == [st EXCEPT ![id] = 1]

\* if not scheduler.running: scheduler.start()
StartIfNotRunning ==
    IF schedState # "Running"
    THEN schedState' = "Running" /\ started' = started + 1
    ELSE UNCHANGED <<schedState, started>>

\* InitResult without the try/except: the store's exception leaves
\* initialize_scheduler.
InitResultRaises(up) == IF up THEN "True" ELSE "raised"

\* What initialize_scheduler returns: scheduler.get_jobs() raises when the
\* store is not reachable, and the except clause returns False.
InitResult(up) == IF up THEN "True" ELSE "False"

\* if scheduler.running: scheduler.shutdown()
ShutdownIfRunning ==
    IF schedState = "Running"
    THEN schedState' = "Stopped"
    ELSE UNCHANGED schedState

\* A schedule_jobs that registers the upload job alone.
ScheduleJobsOnlyUpload(result) ==
    \/ /\ storeUp
       /\ store' = AddJob(store, "upload_bills_job")
       /\ storeUp' = storeUp
       /\ result = "ok"
    \/ /\ ~storeUp
       /\ UNCHANGED <<store, storeUp>>
       /\ result = "raised"

\* schedule_jobs(): two add_job calls; an exception of either is logged and
\* raised again.  result is "ok" when both calls returned.  The store may
\* be unreachable at the first call, or become so before the second.
ScheduleJobs(result) ==
    \/ /\ storeUp
       /\ store' = AddJob(AddJob(store, "upload_bills_job"),
                          "send_weekly_report_job")
       /\ storeUp' = storeUp
       /\ result = "ok"
    \/ /\ storeUp
       /\ store' = AddJob(store, "upload_bills_job")
       /\ storeUp' = FALSE
       /\ result = "raised"
    \/ /\ ~storeUp
       /\ UNCHANGED <<store, storeUp>>
       /\ result = "raised"

\* The store becomes unreachable, or reachable again.
StoreFlips ==
    /\ storeUp' = ~storeUp
    /\ UNCHANGED <<schedState, started, store, life, boots, api, uploadVars, reportVars>>

(***************************************************************************)
(* The wrapper's functions called in any order (SpecApi).                   *)
(***************************************************************************)
IdleApi == [op |-> "none", result |-> "none", calls |-> 0, scheduled |-> 0]

ApiInitialize ==
    /\ api.calls < MaxCalls
    /\ StartIfNotRunning
    /\ api' = [api EXCEPT !.op = "initialize_scheduler",
                          !.result = InitResult(storeUp),
                          !.calls = @ + 1]
    /\ UNCHANGED <<store, storeUp, life, boots, uploadVars, reportVars>>

\* schedule_jobs() on a running scheduler, as main.py calls it (after
\* initialize_scheduler): before start() and after shutdown() the library
\* queues add_job and writes nothing to the store.
ApiScheduleJobs ==
    /\ api.calls < MaxCalls
    /\ schedState = "Running"
    /\ \E r \in {"ok", "raised"} :
          /\ ScheduleJobs(r)
          /\ api' = [api EXCEPT !.op = "schedule_jobs",
                                !.result = r,
                                !.calls = @ + 1,
                                !.scheduled = IF r = "ok" THEN @ + 1 ELSE @]
    /\ UNCHANGED <<schedState, started, life, boots, uploadVars, reportVars>>

ApiShutdown ==
    /\ api.calls < MaxCalls
    /\ ShutdownIfRunning
    /\ api' = [api EXCEPT !.op = "shutdown_scheduler",
                          !.result = "returned",
                          !.calls = @ + 1]
    /\ UNCHANGED <<started, store, storeUp, life, boots, uploadVars, reportVars>>

(***************************************************************************)
(* The application lifespan (main.py).  A process start creates the         *)
(* scheduler object anew; the store outlives the process.                   *)
(***************************************************************************)
OffLife ==
    [ pc            |-> "off",
      initResult    |-> "none",  \* what initialize_scheduler returned
      initStoreUp   |-> TRUE,    \* whether the store was reachable then
      jobsSeen      |-> {},      \* what the lifespan's get_jobs returned
      scheduleCalls |-> 0,       \* schedule_jobs calls of this process
      scheduleResult |-> "none", \* how the lifespan's schedule_jobs ended
      storeAtBoot   |-> [j \in JobIds |-> 0] ]

\* The process starts: services.Schedulers is imported, the lifespan begins.
Boot ==
    /\ life.pc \in {"off", "done", "crashed"}
    /\ boots < MaxBoots
    /\ boots' = boots + 1
    /\ schedState' = "Uninitialized"
    /\ started' = 0
    /\ life' = [OffLife EXCEPT !.pc = "init", !.storeAtBoot = store]
    /\ UNCHANGED <<store, storeUp, api, uploadVars, reportVars>>

\* if not initialize_scheduler(): log, yield (serve), return.
LifeInitialize ==
    /\ life.pc = "init"
    /\ StartIfNotRunning
    /\ LET r == InitResult(storeUp) IN
         life' = [life EXCEPT !.initResult = r,
                              !.initStoreUp = storeUp,
                              !.pc = CASE r = "True"  -> "check"
                                       [] r = "False" -> "serving"
                                       [] OTHER       -> "crashed"]
    /\ UNCHANGED <<store, storeUp, boots, api, uploadVars, reportVars>>

\* jobs = scheduler.get_jobs(jobstore="default") raises: the except clause
\* of the lifespan logs it.
LifeGetJobsFails ==
    /\ life.pc = "check"
    /\ ~storeUp
    /\ life' = [life EXCEPT !.pc = "serving"]
    /\ UNCHANGED <<schedState, started, store, storeUp, boots, api, uploadVars, reportVars>>

\* A lifespan that clears the store it found jobs in.
LifeJobsFoundClears ==
    /\ life.pc = "check"
    /\ storeUp
    /\ GetJobs(store) # {}
    /\ store' = [j \in JobIds |-> 0]
    /\ life' = [life EXCEPT !.jobsSeen = GetJobs(store), !.pc = "serving"]
    /\ UNCHANGED <<schedState, started, storeUp, boots, api, uploadVars, reportVars>>

\* The store holds jobs: they are logged.
LifeJobsFound ==
    /\ life.pc = "check"
    /\ storeUp
    /\ GetJobs(store) # {}
    /\ life' = [life EXCEPT !.jobsSeen = GetJobs(store), !.pc = "serving"]
    /\ UNCHANGED <<schedState, started, store, storeUp, boots, api, uploadVars, reportVars>>

\* if not jobs: schedule_jobs(); what it raises the lifespan logs.
LifeScheduleJobs ==
    /\ life.pc = "check"
    /\ storeUp
    /\ GetJobs(store) = {}
    /\ \E r \in {"ok", "raised"} :
          /\ ScheduleJobs(r)
          /\ life' = [life EXCEPT !.scheduleCalls = @ + 1,
                                   !.scheduleResult = r,
                                   !.pc = "serving"]
    /\ UNCHANGED <<schedState, started, boots, api, uploadVars, reportVars>>

\* The application stops on the path of "yield; return" (line 29-30): the
\* lifespan ends there.
LifeStopNoScheduler ==
    /\ life.pc = "serving"
    /\ life.initResult = "False"
    /\ life' = [life EXCEPT !.pc = "done"]
    /\ UNCHANGED <<schedState, started, store, storeUp, boots, api, uploadVars, reportVars>>

\* The application stops after the second yield: shutdown_scheduler().
LifeStopShutdown ==
    /\ life.pc = "serving"
    /\ life.initResult = "True"
    /\ ShutdownIfRunning
    /\ life' = [life EXCEPT !.pc = "done"]
    /\ UNCHANGED <<started, store, storeUp, boots, api, uploadVars, reportVars>>

(***************************************************************************)
(* The specifications.  Each one starts the part it is about in every       *)
(* state that part can start in and holds the other parts idle.             *)
(***************************************************************************)
InitUpload ==
    /\ disk \in SUBSET FileNames
    /\ upl = [p \in Callers |-> IdleUpload]
    /\ runs = 0
    /\ rep = [p \in Callers |-> IdleReport]
    /\ reportLog = <<>>
    /\ schedState = "Uninitialized"
    /\ started = 0
    /\ store = [j \in JobIds |-> 0]
    /\ storeUp = TRUE
    /\ life = OffLife
    /\ boots = 0
    /\ api = IdleApi

NextUpload ==
    \/ \E p \in Callers : StartUpload(p)
    \/ \E p \in Callers : ListDir(p)
    \/ \E p \in Callers : ScanSkip(p)
    \/ \E p \in Callers : ScanOpen(p)
    \/ \E p \in Callers : ScanOpenFails(p)
    \/ \E p \in Callers : NoBills(p)
    \/ \E p \in Callers : EnterTry(p)
    \/ \E p \in Callers : CreateClient(p)
    \/ \E p \in Callers : UploadSucceeds(p)
    \/ \E p \in Callers : UploadFails(p)
    \/ \E p \in Callers : OuterExcept(p)
    \/ \E p \in Callers : RemoveFile(p)
    \/ \E p \in Callers : RemoveFails(p)
    \/ \E p \in Callers : LeaveClient(p)
    \/ \E p \in Callers : Finally(p)
    \/ \E p \in Callers : RespondUpload(p)

SpecUpload == InitUpload /\ [][NextUpload]_vars

\* The scheduled runs of upload_bills_job, one after another and without
\* end.  Every step of a run is taken in the end (the job is scheduled
\* fairly), and the remote service does not fail for ever: of the upload
\* calls issued, one succeeds in the end.
NextRetry ==
    \/ TimerFiresUpload
    \/ ListDir("sched")
    \/ ScanSkip("sched")
    \/ ScanOpen("sched")
    \/ ScanOpenFails("sched")
    \/ NoBills("sched")
    \/ EnterTry("sched")
    \/ CreateClient("sched")
    \/ UploadSucceeds("sched")
    \/ UploadFails("sched")
    \/ OuterExcept("sched")
    \/ RemoveFile("sched")
    \/ RemoveFails("sched")
    \/ LeaveClient("sched")
    \/ Finally("sched")
    \/ RespondUpload("sched")

SpecRetry ==
    /\ InitUpload
    /\ [][NextRetry]_vars
    /\ WF_vars(NextRetry)
    /\ SF_vars(UploadSucceeds("sched"))

\* upload_bills_job run by the scheduler over directories of sample names.
InitFilter ==
    /\ disk \in { S \in SUBSET SampleNames :
                    Cardinality(S) >= 1 /\ Cardinality(S) <= MaxEntries }
    /\ upl = [p \in Callers |-> IdleUpload]
    /\ runs = 0
    /\ rep = [p \in Callers |-> IdleReport]
    /\ reportLog = <<>>
    /\ schedState = "Uninitialized"
    /\ started = 0
    /\ store = [j \in JobIds |-> 0]
    /\ storeUp = TRUE
    /\ life = OffLife
    /\ boots = 0
    /\ api = IdleApi

NextFilter ==
    \/ StartUpload("sched")
    \/ ListDir("sched")
    \/ ScanSkip("sched")
    \/ ScanOpen("sched")
    \/ ScanOpenFails("sched")
    \/ NoBills("sched")
    \/ EnterTry("sched")
    \/ CreateClient("sched")
    \/ UploadSucceeds("sched")
    \/ UploadFails("sched")
    \/ OuterExcept("sched")
    \/ RemoveFile("sched")
    \/ RemoveFails("sched")
    \/ LeaveClient("sched")
    \/ Finally("sched")
    \/ RespondUpload("sched")

SpecFilter == InitFilter /\ [][NextFilter]_vars

InitReport ==
    /\ disk = {}
    /\ upl = [p \in Callers |-> IdleUpload]
    /\ runs = 0
    /\ rep = [p \in Callers |-> IdleReport]
    /\ reportLog = <<>>
    /\ schedState = "Uninitialized"
    /\ started = 0
    /\ store = [j \in JobIds |-> 0]
    /\ storeUp = TRUE
    /\ life = OffLife
    /\ boots = 0
    /\ api = IdleApi

NextReport ==
    \/ \E p \in Callers : StartReport(p)
    \/ \E p \in Callers : ReportCreateClient(p)
    \/ \E p \in Callers : ReportSucceeds(p)
    \/ \E p \in Callers : ReportFails(p)
    \/ \E p \in Callers : RespondReport(p)

SpecReport == InitReport /\ [][NextReport]_vars

InitSched ==
    /\ disk = {}
    /\ upl = [p \in Callers |-> IdleUpload]
    /\ runs = 0
    /\ rep = [p \in Callers |-> IdleReport]
    /\ reportLog = <<>>
    /\ schedState = "Uninitialized"
    /\ started = 0
    /\ store = [j \in JobIds |-> 0]
    /\ storeUp \in BOOLEAN
    /\ life = OffLife
    /\ boots = 0
    /\ api = IdleApi

NextApi ==
    \/ ApiInitialize
    \/ ApiScheduleJobs
    \/ ApiShutdown
    \/ StoreFlips

SpecApi == InitSched /\ [][NextApi]_vars

NextSched ==
    \/ Boot
    \/ LifeInitialize
    \/ LifeGetJobsFails
    \/ LifeJobsFound
    \/ LifeScheduleJobs
    \/ LifeStopNoScheduler
    \/ LifeStopShutdown
    \/ StoreFlips

SpecSched == InitSched /\ [][NextSched]_vars

(***************************************************************************)
(* Claims about upload_bills_job (SpecUpload).                              *)
(***************************************************************************)
Ended(p) == upl[p].pc \in {"ended", "done"}

Bills(S) == { f \in S : IsBill(f) }

\* C1: an invocation removes a file only after its upload_receipts call has
\* returned successfully: after a failed call it has removed nothing, and
\* when it returns after a successful call without a deletion error it has
\* removed exactly the N files it uploaded.
C1_RemoveOnlyAfterSuccess ==
    \A p \in Callers :
       /\ upl[p].removed # {} => upl[p].uploadResult = "ok"
       /\ upl[p].uploadResult # "ok" => upl[p].removed = {}
       /\ ( /\ upl[p].outcome = "returned"
            /\ upl[p].uploadResult = "ok"
            /\ upl[p].removeErrors = {} )
          => /\ upl[p].removed = Range(upl[p].file_paths)
             /\ Cardinality(upl[p].removed) = Len(upl[p].bill_files)

\* One invocation failed to upload two files and removed none, the next
\* uploaded the same two files and removed both.
C1_Witness ==
    /\ upl["sched"].pc = "done"
    /\ upl["sched"].uploadResult = "failed"
    /\ Len(upl["sched"].bill_files) = 2
    /\ upl["sched"].removed = {}
    /\ upl["manual"].pc = "ended"
    /\ upl["manual"].uploadResult = "ok"
    /\ upl["manual"].removeErrors = {}
    /\ Cardinality(upl["manual"].removed) = 2

\* C2: when the upload_receipts call fails, the exception leaves
\* upload_bills_job: the job does not return normally.
C2_UploadFailurePropagates ==
    \A p \in Callers :
       (Ended(p) /\ upl[p].uploadResult = "failed")
          => upl[p].outcome = "raised"

\* C3: a manual trigger answers 200 "... job completed" only when the job
\* succeeded; a failed remote call gives a 500-class response.
C3_ManualFailureAnswers500 ==
    upl["manual"].response = "200 Bill upload job completed"
       => upl["manual"].uploadResult # "failed"

\* C4: when the listing holds no entry with an image extension, the
\* invocation creates no API client, issues no upload_receipts call,
\* removes no file and ends by returning, not by raising.
C4_NoBillsNoRemoteCall ==
    \A p \in Callers :
       (upl[p].pc \notin {"idle", "listdir"} /\ Bills(upl[p].listed) = {})
          => /\ upl[p].clients = 0
             /\ upl[p].calls = 0
             /\ upl[p].removed = {}
             /\ upl[p].outcome # "raised"
             /\ Ended(p) => upl[p].outcome = "returned"

\* An invocation over a directory that holds only a text file has returned.
C4_Witness ==
    \E p \in Callers :
       /\ upl[p].pc = "ended"
       /\ upl[p].listed = { <<"n",".","t","x","t">> }
       /\ upl[p].outcome = "returned"
       /\ upl[p].calls = 0

\* C8: every handle an invocation opened is closed when the invocation has
\* ended, on every exit path.
C8_HandlesClosedAtExit ==
    \A p \in Callers : Ended(p) => upl[p].open = {}

(***************************************************************************)
(* Claims about the scheduler wrapper (SpecApi) and the lifespan            *)
(* (SpecSched).                                                             *)
(***************************************************************************)

C6_UnreachableStoreReturnsFalse ==
    /\ life.pc # "crashed"
    /\ (life.initResult # "none" /\ ~life.initStoreUp)
          => life.initResult = "False"
    /\ life.initResult = "False"
          => /\ life.pc \in {"serving", "done"}
             /\ life.scheduleCalls = 0
             /\ store = life.storeAtBoot

\* The application serves after initialize_scheduler returned False.
C6_Witness ==
    /\ life.pc = "serving"
    /\ life.initResult = "False"
    /\ ~life.initStoreUp
    /\ schedState = "Running"

\* C7: the scheduler is started at most once per application lifetime, and
\* once the lifespan has finished the timer engine is not running.
C7_StoppedWhenLifespanDone ==
    /\ started <= 1
    /\ life.pc = "done" => schedState # "Running"

(***************************************************************************)
(* Claims about send_weekly_report_job (SpecReport).                        *)
(***************************************************************************)

\* C9: a failure of the report-by-email call never leaves
\* send_weekly_report_job: the job returns normally to its caller, and an
\* invocation issues at most one report call.
C9_ReportFailureSwallowed ==
    \A p \in Callers :
       /\ rep[p].outcome # "raised"
       /\ rep[p].calls <= 1
       /\ rep[p].callResult = "failed"
             => /\ rep[p].outcome = "returned"
                /\ rep[p].response \in
                      {"none", "200 Weekly report job completed", "ran"}

\* The report call of a scheduled run failed and the wrapper saw a normal
\* return.
C9_Witness ==
    /\ rep["sched"].pc = "done"
    /\ rep["sched"].callResult = "failed"
    /\ rep["sched"].calls = 1
    /\ rep["sched"].response = "ran"

IsDayStart(dt) ==
    dt.hour = 0 /\ dt.minute \in {0, 1} /\ dt.second = 0 /\ dt.microsecond = 0

IsDayEnd(dt) == dt.hour = 23 /\ dt.minute = 59

SameSecond(a, b) ==
    /\ a.day = b.day /\ a.hour = b.hour
    /\ a.minute = b.minute /\ a.second = b.second

\* C10: every window send_weekly_report_job computes runs from a day's
\* start time to a day's end time with start <= end, and two computations
\* within the same second give the same (start, end) pair.
C10_WindowDayStartToDayEnd ==
    \A i \in 1..Len(reportLog) :
       /\ IsDayStart(reportLog[i].first_day)
       /\ IsDayEnd(reportLog[i].last_day)
       /\ NotAfter(reportLog[i].first_day, reportLog[i].last_day)
       /\ \A k \in 1..Len(reportLog) :
             ( /\ reportLog[i].impl = reportLog[k].impl
               /\ SameSecond(reportLog[i].today, reportLog[k].today) )
             => /\ reportLog[i].first_day = reportLog[k].first_day
                /\ reportLog[i].last_day = reportLog[k].last_day

(***************************************************************************)
(* Claims about the retry of failed uploads (SpecRetry).                    *)
(***************************************************************************)
LeftInPlace ==
    /\ (Ended("sched") /\ upl["sched"].uploadResult = "failed")
          => Range(upl["sched"].file_paths) \subseteq disk
    /\ upl["sched"].pc \notin {"idle", "listdir"}
          => upl["sched"].leftover \subseteq upl["sched"].listed

UploadedAndRemoved(f) ==
    /\ f \notin disk
    /\ f \in upl["sched"].removed
    /\ upl["sched"].uploadResult = "ok"

\* No open() and no os.remove() of the running invocation has failed.
FilesystemWorks ==
    /\ upl["sched"].outcome # "raised"
    /\ upl["sched"].removeErrors = {}

\* C11 as stated: the files of a failed upload stay on disk and the next run
\* lists them again; with the job scheduled fairly and a remote service that
\* succeeds in the end, every matching file on disk is uploaded and removed
\* in the end.
C11_RetryUploadsEveryFile ==
    /\ []LeftInPlace
    /\ \A f \in Bills(FileNames) : (f \in disk) ~> UploadedAndRemoved(f)

\* C11 as amended: the same, provided that from some run on open() and
\* os.remove() no longer fail.
C11_RetryWhenFilesystemWorks ==
    /\ []LeftInPlace
    /\ (<>[]FilesystemWorks)
          => \A f \in Bills(FileNames) : (f \in disk) ~> UploadedAndRemoved(f)

\* A run failed to upload two files; the next run uploaded and removed both.
C11_Witness ==
    /\ Cardinality(upl["sched"].leftover) = 2
    /\ upl["sched"].uploadResult = "ok"
    /\ upl["sched"].removed = upl["sched"].leftover
    /\ upl["sched"].pc = "ended"

(***************************************************************************)
(* Claims about the jobs in the store after startup (SpecSched).            *)
(***************************************************************************)
StartedUp == life.pc \in {"serving", "done"} /\ life.initResult = "True"

\* The lifespan's get_jobs returned (the store was reachable then).
JobsChecked == life.jobsSeen # {} \/ life.scheduleCalls = 1

\* C12: on a startup with a reachable store, an empty store gets both jobs
\* registered, and a store that holds jobs is left as it was, through
\* shutdown and restart too (no job re-registered, none removed).
C12_RegistersOrLeavesUnchanged ==
    /\ (StartedUp /\ GetJobs(life.storeAtBoot) = {}
                  /\ life.scheduleResult = "ok")
          => \A j \in JobIds : store[j] = 1
    /\ (life.pc # "off" /\ GetJobs(life.storeAtBoot) # {})
          => store = life.storeAtBoot /\ life.scheduleCalls = 0

\* A restart found both jobs in the store and left them there.
C12_Witness ==
    /\ boots = 2
    /\ life.pc = "serving"
    /\ life.jobsSeen = JobIds
    /\ life.scheduleCalls = 0
    /\ store = life.storeAtBoot

\* C13 as stated: after every startup in which initialize_scheduler returned
\* True (and the store answered get_jobs), the store holds both jobs,
\* whatever it held before and whether or not a registration failed.
C13_BothJobsAfterStartup ==
    (StartedUp /\ JobsChecked) => GetJobs(store) = JobIds

\* C13 as amended: startup removes no job; the store holds both jobs when
\* it held both before or when schedule_jobs returned without raising; a
\* store found with one job alone is left with that one job.
C13_BothJobsWhenKeptOrRegistered ==
    StartedUp =>
       /\ GetJobs(life.storeAtBoot) \subseteq GetJobs(store)
       /\ (GetJobs(life.storeAtBoot) = JobIds \/ life.scheduleResult = "ok")
             => GetJobs(store) = JobIds
       /\ (life.jobsSeen # {} /\ life.jobsSeen # JobIds)
             => GetJobs(store) = life.jobsSeen

\* A startup found the upload job alone and left the store with it.
C13_Witness ==
    /\ StartedUp
    /\ life.pc = "serving"
    /\ life.jobsSeen = {"upload_bills_job"}
    /\ GetJobs(store) = {"upload_bills_job"}

(***************************************************************************)
(* Claims about how often a file is uploaded (SpecUpload).                  *)
(***************************************************************************)
\* The invocations whose upload_receipts call succeeded with f in the batch.
UploadedBy(f) ==
    { p \in Callers : upl[p].uploadResult = "ok"
                      /\ f \in Range(upl[p].bill_files) }

NoRepeats(s) == \A i, j \in 1..Len(s) : s[i] = s[j] => i = j

\* C14 as stated: no file is in the batch of more than one successful
\* upload_receipts call, over runs one after another and over interleaved
\* invocations.
C14_NoFileUploadedTwice ==
    \A f \in FileNames : Cardinality(UploadedBy(f)) <= 1

\* C14 as amended: an invocation makes at most one upload_receipts call, its
\* batch holds no file twice, and it holds only files the invocation found
\* when it listed the directory.
C14_OncePerInvocation ==
    \A p \in Callers :
       /\ upl[p].calls <= 1
       /\ NoRepeats(upl[p].bill_files)
       /\ Range(upl[p].bill_files) \subseteq Bills(upl[p].listed)

\* The manual and the scheduled invocation both uploaded the same file.
C14_Witness ==
    /\ upl["manual"].uploadResult = "ok"
    /\ upl["sched"].uploadResult = "ok"
    /\ Range(upl["manual"].bill_files) \cap Range(upl["sched"].bill_files) # {}

(***************************************************************************)
(* Claims about errors of the removal (SpecUpload).                         *)
(***************************************************************************)
\* Every uploaded file had its removal attempted, and the job returned.
EveryRemovalAttempted(p) ==
    /\ upl[p].outcome = "returned"
    /\ upl[p].removed \cup upl[p].removeErrors = Range(upl[p].file_paths)
    /\ upl[p].removed \cap upl[p].removeErrors = {}

\* A step in which an os.remove of p fails.
RemovalFailsStep(p) ==
    /\ upl[p].pc = "remove"
    /\ upl'[p].removeErrors # upl[p].removeErrors

\* C15: after a successful upload an error of one os.remove does not stop the
\* batch: the failing step leaves the disk as it is and the loop goes on, the
\* removal of every other uploaded file is attempted, and the job returns
\* normally.
C15_RemovalErrorDoesNotStopBatch ==
    /\ [](\A p \in Callers :
             (Ended(p) /\ upl[p].uploadResult = "ok")
                => EveryRemovalAttempted(p))
    /\ [][\A p \in Callers :
             RemovalFailsStep(p) => (disk' = disk /\ upl'[p].pc = "remove")]_vars

\* The removal of the first uploaded file failed, the second file was
\* removed all the same, and the job returned.
C15_Witness ==
    \E p \in Callers :
       /\ Ended(p)
       /\ upl[p].uploadResult = "ok"
       /\ upl[p].outcome = "returned"
       /\ Len(upl[p].file_paths) = 2
       /\ upl[p].file_paths[1] \in upl[p].removeErrors
       /\ upl[p].file_paths[1] \in disk
       /\ upl[p].file_paths[2] \in upl[p].removed

(***************************************************************************)
(* Claims about the week of the report (SpecReport).                        *)
(***************************************************************************)
\* The days of the window: Monday to Sunday of the week before today's.
PreviousWeekDays(today, first_day, last_day) ==
    /\ Weekday(first_day) = 0
    /\ Weekday(last_day) = 6
    /\ last_day.day = first_day.day + 6
    /\ last_day.day < today.day
    /\ first_day.day = (today.day - Weekday(today)) - 7

\* C16: on every weekday, the window send_weekly_report_job requests starts
\* on the Monday (00:01) and ends on the Sunday (23:59) of the Monday-based
\* week before the current one: the end is 6 days after the start and
\* before the day of the invocation.
C16_PreviousWeekMondayToSunday ==
    \A p \in Callers :
       rep[p].calls >= 1 =>
          /\ PreviousWeekDays(rep[p].today, rep[p].first_day, rep[p].last_day)
          /\ rep[p].first_day.hour = 0 /\ rep[p].first_day.minute = 1
          /\ rep[p].last_day.hour = 23 /\ rep[p].last_day.minute = 59

(***************************************************************************)
(* Claims about the states of the scheduler (SpecApi).                      *)
(***************************************************************************)
\* C17: over any sequence of calls, initialize_scheduler starts the engine
\* only when it is not running (no second start while Running),
\* shutdown_scheduler stops it only when it is running and changes nothing
\* when it is stopped, and the state changes only from Uninitialized to
\* Running and from Running to Stopped.
C17_OnlyStartThenStop ==
    [][ /\ schedState = "Running" => started' = started
        /\ schedState \notin {"Running", "Stopped"} => schedState' # "Stopped"
        /\ schedState = "Stopped" => schedState' # "Running"
        /\ schedState' # schedState =>
              <<schedState, schedState'>> \in
                 { <<"Uninitialized", "Running">>, <<"Running", "Stopped">> }
      ]_vars

(***************************************************************************)
(* Claims about the selection of files (SpecFilter).                        *)
(***************************************************************************)
\* The name ends in the characters of pattern, each in either case.
EndsInEitherCase(name, pattern) ==
    /\ Len(name) >= Len(pattern)
    /\ \A i \in 1..Len(pattern) :
          name[Len(name) - Len(pattern) + i] \in pattern[i]

ImageName(name) ==
    \/ EndsInEitherCase(name, << {"."}, {"j","J"}, {"p","P"}, {"g","G"} >>)
    \/ EndsInEitherCase(name, << {"."}, {"j","J"}, {"p","P"}, {"e","E"},
                                 {"g","G"} >>)
    \/ EndsInEitherCase(name, << {"."}, {"p","P"}, {"n","N"}, {"g","G"} >>)

\* The entries an invocation opened, uploaded or tried to remove.
Touched(p) ==
    Range(upl[p].file_paths) \cup Range(upl[p].bill_files) \cup upl[p].open
       \cup Range(upl[p].todo) \cup upl[p].removed \cup upl[p].removeErrors

ScanComplete(p) ==
    /\ upl[p].pc \notin {"idle", "listdir", "scan"}
    /\ upl[p].outcome # "raised"

\* C18: upload_bills_job selects exactly the listed entries whose name ends,
\* in either case, in .jpg, .jpeg or .png (a.jpg, b.JPG, c.jpeg and d.png are
\* selected, e.gif and n.txt are not), and an entry it does not select is
\* never opened, uploaded or removed.
C18_SelectsExactlyImages ==
    /\ \A n \in { <<"a",".","j","p","g">>, <<"b",".","J","P","G">>,
                  <<"c",".","j","p","e","g">>, <<"d",".","p","n","g">> } :
          IsBill(n)
    /\ \A n \in { <<"e",".","g","i","f">>, <<"n",".","t","x","t">> } :
          ~IsBill(n)
    /\ \A p \in Callers :
          /\ \A f \in Touched(p) : ImageName(f)
          /\ ScanComplete(p) =>
                Range(upl[p].file_paths) = { f \in upl[p].listed : ImageName(f) }
          /\ \A f \in disk \cup upl[p].listed :
                ~ImageName(f) => f \in disk

\* A run over b.JPG and e.gif uploaded and removed b.JPG and left e.gif.
C18_Witness ==
    /\ upl["sched"].listed = { <<"b",".","J","P","G">>, <<"e",".","g","i","f">> }
    /\ upl["sched"].uploadResult = "ok"
    /\ upl["sched"].removed = { <<"b",".","J","P","G">> }
    /\ disk = { <<"e",".","g","i","f">> }
    /\ upl["sched"].pc = "ended"

====
